---- MODULE Spec2Model ----
(***************************************************************************)
(* A model of bureaudesrip: HandBrake.run (the process session and its     *)
(* regex-driven incremental parser), scan_dvd, transcode_title, eject, and *)
(* the orchestrator main/__main__.                                          *)
(*                                                                         *)
(* Text is a sequence of tokens.  A token is one character of the stream   *)
(* ("\n", " ", ":", "{", "}") or an atomic run of characters of one regex   *)
(* class:                                                                  *)
(*   "J"   the word run  JSON Title Set   (class [\w\s], no newline)        *)
(*   "P"   the word run  Progress         (class [\w\s], no newline)        *)
(*   "m1", "m12", "s", "w"   the text of one JSON object member             *)
(*   "x"   text that is not JSON                                            *)
(* Member and "x" tokens stand for text starting with a double quote, so   *)
(* they are neither \w nor \s and hold no newline.                         *)
(***************************************************************************)
EXTENDS Integers, Sequences, FiniteSets, TLC

\* ---------------------------------------------------------------- bounds
MaxItems == 2       \* blocks or stray lines one child writes to stdout
MaxPipe == 1        \* chunks the stdout pipe holds unread
MaxErrLines == 6    \* lines the stderr pipe holds
MaxTitles == 2      \* entries of the title map
MaxChunkText == 2   \* blocks or stray lines of a text fed in chunks

\* ------------------------------------------------------ program constants
DiagLines == 5      \* [-5:], the stderr lines kept for the error text

\* ------------------------------------------------------- character classes
NL == "\n"
SP == " "

\* \w : word characters (the name runs)
IsWord(c) == c \in {"J", "P"}

\* \s : white space, newline included
IsSpace(c) == c \in {SP, NL}

\* [\w\s] : the class of group 1 of JSON_ENTRY
IsNameChar(c) == IsWord(c) \/ IsSpace(c)

\* ---------------------------------------------------------------- JSON
MemberTokens == {"m1", "m12", "s", "w"}

EmptyPayload == [has |-> {}, TitleList |-> <<>>, State |-> ""]

\* The value of the object holding the one member a token stands for.
MemberPayload(m) ==
    CASE m = "m1" ->
           [has |-> {"TitleList"},
            TitleList |-> << [Index |-> 1, SubtitleList |-> <<"en", "en", "fr">>] >>,
            State |-> ""]
      [] m = "m12" ->
           [has |-> {"TitleList"},
            TitleList |-> << [Index |-> 1, SubtitleList |-> <<"en", "en", "fr">>],
                             [Index |-> 2, SubtitleList |-> <<"fr">>] >>,
            State |-> ""]
      [] m = "s" ->
           [has |-> {"State", "Scanning"}, TitleList |-> <<>>, State |-> "SCANNING"]
      [] m = "w" ->
           [has |-> {"State", "Working"}, TitleList |-> <<>>, State |-> "WORKING"]

\* The tokens of a text that are not JSON white space.
RECURSIVE NonWs(_)
NonWs(t) ==
    IF t = <<>> THEN <<>>
    ELSE IF IsSpace(Head(t)) THEN NonWs(Tail(t))
         ELSE <<Head(t)>> \o NonWs(Tail(t))

\* json.loads on group 2 ("{" ... "}"): an object with no member or with
\* one member decodes; anything else raises JSONDecodeError.
JsonValid(t) ==
    LET c == NonWs(t) IN
    /\ Len(c) >= 2
    /\ c[1] = "{"
    /\ c[Len(c)] = "}"
    /\ \/ Len(c) = 2
       \/ Len(c) = 3 /\ c[2] \in MemberTokens

JsonLoads(t) ==
    LET c == NonWs(t) IN
    IF Len(c) = 2 THEN EmptyPayload ELSE MemberPayload(c[2])

\* ------------------------------------------------------------ JSON_ENTRY
\* ^ under re.MULTILINE: the start of the string or just after a newline.
LineStart(buf, i) == i = 1 \/ buf[i - 1] = NL

\* [\w\s]+ from position i, greedy: the first position after the run.
RECURSIVE NameRunEnd(_, _)
NameRunEnd(buf, i) ==
    IF i <= Len(buf) /\ IsNameChar(buf[i]) THEN NameRunEnd(buf, i + 1) ELSE i

\* .*\n from position i: the position after the newline, 0 when the buffer
\* ends before a newline.
RECURSIVE LineEnd(_, _)
LineEnd(buf, i) ==
    IF i > Len(buf) THEN 0
    ELSE IF buf[i] = NL THEN i + 1
    ELSE LineEnd(buf, i + 1)

\* ( .*\n)+ from position i, greedy: the position after the last whole line
\* that starts with a space (i itself when there is none).
RECURSIVE BodyEnd(_, _)
BodyEnd(buf, i) ==
    IF i <= Len(buf) /\ buf[i] = SP /\ LineEnd(buf, i + 1) # 0
    THEN BodyEnd(buf, LineEnd(buf, i + 1))
    ELSE i

\* The match of JSON_ENTRY starting at position s, as
\* [ok, name = group 1, body = group 2, start, end (inclusive), endpos].
\* Only the whole greedy name run can be followed by ":", and only the whole
\* greedy run of body lines can be followed by "}", so backtracking finds
\* nothing else.
MatchAt(buf, s) ==
    LET n == NameRunEnd(buf, s)
        b == n + 4
        e == BodyEnd(buf, b)
        ok == /\ LineStart(buf, s)
              /\ n > s
              /\ n + 3 <= Len(buf)
              /\ buf[n] = ":" /\ buf[n + 1] = SP /\ buf[n + 2] = "{" /\ buf[n + 3] = NL
              /\ e > b
              /\ e <= Len(buf)
              /\ buf[e] = "}"
    IN  IF ok
        THEN [ok |-> TRUE, name |-> SubSeq(buf, s, n - 1), body |-> SubSeq(buf, n + 2, e),
              start |-> s, end |-> e, endpos |-> Len(buf)]
        ELSE [ok |-> FALSE, name |-> <<>>, body |-> <<>>,
              start |-> s, end |-> 0, endpos |-> Len(buf)]

\* JSON_ENTRY.finditer(buf) from position pos: the non-overlapping matches,
\* leftmost first, each search resuming where the previous match ended.
RECURSIVE FindIterFrom(_, _)
FindIterFrom(buf, pos) ==
    IF pos > Len(buf) THEN <<>>
    ELSE LET m == MatchAt(buf, pos) IN
         IF m.ok THEN <<m>> \o FindIterFrom(buf, m.end + 1)
         ELSE FindIterFrom(buf, pos + 1)

FindIter(buf) == FindIterFrom(buf, 1)

\* ------------------------------------------------------------- the state
VARIABLES
    args,        \* Args: [title_map, no_eject], from parse_args
    pc,          \* where main is: "start", "scan", "transcode", "ejecting", "exited"
                 \* ("parse": the parsing loop alone, fed chunks)
    scan,        \* main's scan: <<>> for None, <<content>> once captured
    outIdx,      \* which entry of title_map the loop over get_outputs is at
    procs,       \* every child process launched so far, in launch order
    childLines,  \* child: the lines of its current block still to be written
    itemsLeft,   \* child: how many more blocks or lines it may start
    outPipe,     \* proc.stdout: the chunks written and not yet read
    stderr,      \* proc.stderr: the lines written (read only at failure)
    stdout,      \* run's local stdout: the text buffer
    genPc,       \* where the generator run is: "none", "reading", "yielded",
                 \* "waiting", "done"
    pending,     \* the matches of the current pass from the one at the yield on
    truncate,    \* run's local truncate
    readText,    \* history: everything run has read from proc.stdout
    yielded,     \* history: the HandBrakeEntry values run has yielded
    received,    \* history: what main's loop got from scan_dvd / transcode_title
    error,       \* the exception that ended the program, if any
    exitStatus,  \* the host program's exit status, -1 while it runs
    warned,      \* whether "Could not eject DVD" was logged
    feed         \* ("parse" only) the text not yet delivered to the loop

vars == <<args, pc, scan, outIdx, procs, childLines, itemsLeft, outPipe, stderr,
          stdout, genPc, pending, truncate, readText, yielded, received, error,
          exitStatus, warned, feed>>

\* The variables of one session of run and of its child.
session == <<childLines, itemsLeft, outPipe, stderr, stdout, genPc, pending,
             truncate, readText, yielded, received>>

\* ------------------------------------------------------------- helpers
NoError == [kind |-> "none", text |-> <<>>, titles |-> {}]
DecodeError == [kind |-> "decode", text |-> <<>>, titles |-> {}]
ExitError(lines) == [kind |-> "exit", text |-> lines, titles |-> {}]
NoScanError == [kind |-> "noscan", text |-> <<>>, titles |-> {}]
MissingError(ts) == [kind |-> "missing", text |-> <<>>, titles |-> ts]
Interrupted == [kind |-> "interrupt", text |-> <<>>, titles |-> {}]
Uncaught == [kind |-> "crash", text |-> <<>>, titles |-> {}]

\* BureauDesRipError: the errors __main__ catches and reports.
Fatal == {"decode", "exit", "noscan", "missing"}

Last(ps) == ps[Len(ps)]

\* proc.poll() is None
Alive(p) == p.state \in {"running", "blocked", "closed"}

SetLast(ps, st, rc) == [ps EXCEPT ![Len(ps)] = [@ EXCEPT !.state = st, !.rc = rc]]

\* seq[n:]
Slice(seq, n) == SubSeq(seq, n + 1, Len(seq))

\* (variant: the whole of stderr, not its last lines)
LastLinesAll(seq, n) == seq

\* seq[-n:]
LastLines(seq, n) == IF Len(seq) <= n THEN seq ELSE SubSeq(seq, Len(seq) - n + 1, Len(seq))

\* HandBrakeEntry(name=match.group(1), content=json.loads(match.group(2)))
HandBrakeEntry(m) == [name |-> m.name, content |-> JsonLoads(m.body)]

\* (variant: truncate is left at 0, the buffer is never cut)
TruncateNever(m) == 0

\* What a match sets truncate to.
TruncateTo(m) == m.endpos

\* (variant: no finally clause, the child is never killed)
FinallyNoKill(ps) == ps

\* The finally clause of run: kill the child if it has not exited.
Finally(ps) ==
    IF ps # <<>> /\ Alive(Last(ps)) THEN SetLast(ps, "killed", -9) ELSE ps

\* -------------------------------------------------- what a child writes
Block(name, body) ==
    << <<name, ":", SP, "{", NL>>,
       IF body = "" THEN <<SP, NL>> ELSE <<SP, body, NL>>,
       <<"}", NL>> >>

BlankLine == << <<NL>> >>

\* The blocks and stray lines a child may write, each a sequence of lines.
ChildItems ==
    { Block("J", "m1"), Block("J", "m12"), Block("P", "s"), Block("P", "w"),
      Block("P", "x"), BlankLine }

RECURSIVE Flatten(_)
Flatten(ls) == IF ls = <<>> THEN <<>> ELSE Head(ls) \o Flatten(Tail(ls))

\* ------------------------------------------------------------ Args
TitleIds == {1, 2, 3}

\* --title-map: one to MaxTitles entries, each title requested once
TitleMaps ==
    { m \in UNION { [1..n -> TitleIds] : n \in 1..MaxTitles } :
        \A i, j \in 1..Len(m) : i # j => m[i] # m[j] }

\* (variant: stops at the first requested title that is not found)
NotFoundFirst(a, titles) ==
    LET existing_titles == { titles.TitleList[i].Index : i \in 1..Len(titles.TitleList) }
        bad == { i \in 1..Len(a.title_map) : a.title_map[i] \notin existing_titles }
    IN  IF bad = {} THEN {}
        ELSE { a.title_map[CHOOSE i \in bad : \A j \in bad : i <= j] }

\* check_consistency: expected_titles - existing_titles
NotFound(a, titles) ==
    LET existing_titles == { titles.TitleList[i].Index : i \in 1..Len(titles.TitleList) }
        expected_titles == { a.title_map[i] : i \in 1..Len(a.title_map) }
    IN  expected_titles \ existing_titles

\* get_outputs: the candidate kept for a title is the last one with its Index.
TitleInfo(titles, t) ==
    LET is == { i \in 1..Len(titles.TitleList) : titles.TitleList[i].Index = t }
    IN  titles.TitleList[CHOOSE i \in is : \A j \in is : j <= i]

\* (variant: the subtitles of the first title of the list, whatever its Index)
SubtitlesOfFirst(titles, t) ==
    LET info == titles.TitleList[1]
    IN  { info.SubtitleList[i] : i \in 1..Len(info.SubtitleList) }

\* get_outputs: set(x["LanguageCode"] for x in title_info["SubtitleList"])
Subtitles(titles, t) ==
    LET info == TitleInfo(titles, t)
    IN  { info.SubtitleList[i] : i \in 1..Len(info.SubtitleList) }

\* (variant: the outputs come in the reverse of the title-map order)
OutputTitleReversed(a, i) == a.title_map[Len(a.title_map) - i + 1]

\* get_outputs: for title in self.title_map, the title of the i-th output
OutputTitle(a, i) == a.title_map[i]

\* (variant: the handlers of __main__ report the error and return, so the
\* status is 0 whatever happened)
ExitsZero(status, err) ==
    /\ pc' = "exited"
    /\ exitStatus' = 0
    /\ error' = err

\* ---------------------------------------------------------- exits of main
\* __main__: status 1 on KeyboardInterrupt, SystemExit(1), BureauDesRipError
\* or an uncaught exception, status 0 when main returns.
Exits(status, err) ==
    /\ pc' = "exited"
    /\ exitStatus' = status
    /\ error' = err

\* The frame of run is gone: its locals and the pipes with it.
DropSession ==
    /\ childLines' = <<>> /\ itemsLeft' = 0 /\ outPipe' = <<>> /\ stderr' = <<>>
    /\ stdout' = <<>> /\ genPc' = "done" /\ pending' = <<>> /\ truncate' = 0
    /\ readText' = <<>> /\ yielded' = <<>> /\ received' = <<>>

\* The start of run: Popen succeeded, stdout = "".
NewSession ==
    /\ childLines' = <<>> /\ itemsLeft' = MaxItems /\ outPipe' = <<>> /\ stderr' = <<>>
    /\ stdout' = <<>> /\ genPc' = "reading" /\ pending' = <<>> /\ truncate' = 0
    /\ readText' = <<>> /\ yielded' = <<>> /\ received' = <<>>

Popen(kind, title, subs) ==
    procs' = Append(procs, [kind |-> kind, title |-> title, subs |-> subs,
                            state |-> "running", rc |-> -1])

\* ------------------------------------------------------- HandBrake.run
InSession == pc \in {"scan", "transcode", "parse"}

\* (variant: the error is raised outside the try, so no finally clause runs)
RunRaisesNoFinally(err) ==
    /\ procs' = procs
    /\ genPc' = "done"
    /\ pc' = "exited"
    /\ exitStatus' = 1
    /\ error' = err

\* An exception leaves run: the finally clause, then the error travels up
\* through main to __main__, which reports it and exits with status 1.
RunRaises(err) ==
    /\ procs' = Finally(procs)
    /\ genPc' = "done"
    /\ Exits(1, err)

\* (variant: the buffer is emptied after every pass, match or not)
TruncatedAlways(buf, trunc) == <<>>

\* if truncate: stdout = stdout[truncate:]
Truncated(buf, trunc) == IF trunc # 0 THEN Slice(buf, trunc) ELSE buf

\* The loop over finditer from its next match on, up to the point where run
\* next stops: the yield of a decoded match, the JSONDecodeError of one that
\* does not decode, or the end of the pass and the truncation of the buffer.
\* buf is the buffer of the pass, ms the matches still to come, trunc the
\* value of truncate.
Advance(buf, ms, trunc) ==
    IF ms = <<>>
    THEN /\ stdout' = Truncated(buf, trunc)
         /\ pending' = <<>>
         /\ truncate' = 0
         /\ genPc' = "reading"
         /\ UNCHANGED <<yielded, procs, pc, exitStatus, error>>
    ELSE IF ~JsonValid(Head(ms).body)
    THEN /\ stdout' = buf
         /\ pending' = <<>>
         /\ truncate' = trunc
         /\ RunRaises(DecodeError)
         /\ UNCHANGED yielded
    ELSE /\ stdout' = buf
         /\ pending' = ms
         /\ truncate' = trunc
         /\ genPc' = "yielded"
         /\ yielded' = Append(yielded, HandBrakeEntry(Head(ms)))
         /\ UNCHANGED <<procs, pc, exitStatus, error>>

\* (variant: the buffer is searched only once the child has closed stdout)
PassMatchesAtEnd(buf) ==
    IF procs # <<>> /\ Last(procs).state = "running" THEN <<>> ELSE FindIter(buf)

\* for match in JSON_ENTRY.finditer(stdout): the matches of one pass
PassMatches(buf) == FindIter(buf)

\* for data in proc.stdout: stdout += data; truncate = 0; finditer.
Run_Read ==
    /\ InSession
    /\ genPc = "reading"
    /\ outPipe # <<>>
    /\ LET data == Head(outPipe)
           buf == stdout \o data
       IN  /\ outPipe' = Tail(outPipe)
           /\ readText' = readText \o data
           /\ Advance(buf, PassMatches(buf), 0)
    /\ UNCHANGED <<args, scan, outIdx, childLines, itemsLeft, stderr, received,
                   warned, feed>>

\* (variant: the name only has to contain the words)
IsTitleSetLoose(e) == \E i \in 1..Len(e.name) : e.name[i] = "J"

\* update.name == "JSON Title Set"
IsTitleSet(e) == e.name = <<"J">>

\* update.name == "Progress"
IsProgress(e) == e.name = <<"P">>

\* (variant: transcode_title passes on every item)
PassesOnAll(e) == TRUE

\* transcode_title: if item.name == "Progress": yield item.content
PassesOn(e) == e.name = <<"P">>

\* The body of the loop in main over scan_dvd raises KeyError on a Progress
\* message without Scanning; the one over transcode_title, which passes on
\* only the content of Progress messages, on a content without State or
\* without the field of its state.
ConsumerRaises(e) ==
    \/ pc = "scan" /\ IsProgress(e) /\ "Scanning" \notin e.content.has
    \/ /\ pc = "transcode"
       /\ PassesOn(e)
       /\ \/ "State" \notin e.content.has
          \/ e.content.State = "SCANNING" /\ "Scanning" \notin e.content.has
          \/ e.content.State = "WORKING" /\ "Working" \notin e.content.has

\* What the consumer of run hands to the loop in main.
Received(e) ==
    IF pc = "transcode"
    THEN IF PassesOn(e) THEN <<e.content>> ELSE <<>>
    ELSE <<e>>

\* The consumer takes the entry at the yield and asks for the next one: run
\* resumes after the yield (truncate = match.endpos) and goes on.
Run_Consume ==
    /\ InSession
    /\ genPc = "yielded"
    /\ LET m == Head(pending)
           e == HandBrakeEntry(m)
       IN  IF ConsumerRaises(e)
           THEN \* KeyError, caught nowhere: a traceback and status 1.  The
                \* suspended generator is closed as the frames are released:
                \* GeneratorExit at the yield, then the finally clause.
                /\ procs' = Finally(procs)
                /\ Exits(1, Uncaught)
                /\ DropSession
                /\ UNCHANGED scan
           ELSE /\ scan' = IF pc = "scan" /\ IsTitleSet(e) THEN <<e.content>> ELSE scan
                /\ received' = received \o Received(e)
                /\ Advance(stdout, Tail(pending), TruncateTo(m))
                /\ UNCHANGED <<childLines, itemsLeft, outPipe, stderr, readText>>
    /\ UNCHANGED <<args, outIdx, warned, feed>>

\* (variant: an empty pipe is taken for the end of stdout)
AtEofWhenEmpty == outPipe = <<>>

\* for data in proc.stdout ends: nothing left to read and the child has
\* closed its end of the pipe.
AtEof == outPipe = <<>> /\ Last(procs).state \notin {"running", "blocked"}

\* proc.stdout is at its end: the for loop is over, proc.wait() is next.
Run_Eof ==
    /\ pc \in {"scan", "transcode"}
    /\ genPc = "reading"
    /\ AtEof
    /\ genPc' = "waiting"
    /\ UNCHANGED <<args, pc, scan, outIdx, procs, childLines, itemsLeft, outPipe,
                   stderr, stdout, pending, truncate, readText, yielded, received,
                   error, exitStatus, warned, feed>>

\* if proc.wait(): raise BureauDesRipError of the last lines of stderr;
\* otherwise run returns.  proc.stderr.readlines() is the only read of the
\* child's stderr.
Run_Wait ==
    /\ pc \in {"scan", "transcode"}
    /\ genPc = "waiting"
    /\ Last(procs).state = "exited"
    /\ IF Last(procs).rc # 0
       THEN RunRaises(ExitError(LastLines(stderr, DiagLines)))
       ELSE /\ genPc' = "done"
            /\ procs' = Finally(procs)
            /\ UNCHANGED <<pc, exitStatus, error>>
    /\ UNCHANGED <<args, scan, outIdx, childLines, itemsLeft, outPipe, stderr,
                   stdout, pending, truncate, readText, yielded, received, warned,
                   feed>>

\* ------------------------------------------------------------ the child
ChildRuns == pc \in {"scan", "transcode"} /\ Last(procs).state = "running"

\* The child writes one more line to stdout: the next line of the block it
\* is writing, or the first line of a new block or stray line.
Child_Write ==
    /\ ChildRuns
    /\ Len(outPipe) < MaxPipe
    /\ \E ls \in (IF childLines # <<>> THEN {childLines}
                  ELSE IF itemsLeft > 0 THEN ChildItems ELSE {}) :
          /\ outPipe' = Append(outPipe, Head(ls))
          /\ childLines' = Tail(ls)
          /\ itemsLeft' = IF childLines = <<>> THEN itemsLeft - 1 ELSE itemsLeft
    /\ UNCHANGED <<args, pc, scan, outIdx, procs, stderr, stdout, genPc, pending,
                   truncate, readText, yielded, received, error, exitStatus,
                   warned, feed>>

\* The child writes one more line to stderr (line i is the number i): the
\* pipe has room for it, nothing reads it while the child runs.
Child_WriteErr ==
    /\ pc \in {"scan", "transcode"}
    /\ Last(procs).state \in {"running", "closed"}
    /\ Len(stderr) < MaxErrLines
    /\ stderr' = Append(stderr, Len(stderr) + 1)
    /\ UNCHANGED <<args, pc, scan, outIdx, procs, childLines, itemsLeft, outPipe,
                   stdout, genPc, pending, truncate, readText, yielded, received,
                   error, exitStatus, warned, feed>>

\* The child writes one more line to stderr while the pipe is full: its
\* write blocks until somebody reads the pipe.  (Taken here before the
\* child has closed its stdout.)
Child_BlockErr ==
    /\ ChildRuns
    /\ Len(stderr) = MaxErrLines
    /\ procs' = SetLast(procs, "blocked", -1)
    /\ UNCHANGED <<args, pc, scan, outIdx, childLines, itemsLeft, outPipe, stderr,
                   stdout, genPc, pending, truncate, readText, yielded, received,
                   error, exitStatus, warned, feed>>

\* The child closes its stdout, wherever it is in its output.
Child_Close ==
    /\ ChildRuns
    /\ procs' = SetLast(procs, "closed", -1)
    /\ childLines' = <<>>
    /\ itemsLeft' = 0
    /\ UNCHANGED <<args, pc, scan, outIdx, outPipe, stderr, stdout, genPc, pending,
                   truncate, readText, yielded, received, error, exitStatus,
                   warned, feed>>

\* The child exits, with status 0 or 1.
Child_Exit ==
    /\ pc \in {"scan", "transcode"}
    /\ Last(procs).state = "closed"
    /\ \E rc \in {0, 1} : procs' = SetLast(procs, "exited", rc)
    /\ UNCHANGED <<args, pc, scan, outIdx, childLines, itemsLeft, outPipe, stderr,
                   stdout, genPc, pending, truncate, readText, yielded, received,
                   error, exitStatus, warned, feed>>

\* ------------------------------------------------------------------ main
\* main up to the first step of the loop over hb.scan_dvd: run starts the
\* child in scan mode.  A Popen that fails raises out of main, uncaught.
Main_Scan ==
    /\ pc = "start"
    /\ \/ /\ Popen("scan", 0, {})
          /\ NewSession
          /\ pc' = "scan"
          /\ UNCHANGED <<error, exitStatus>>
       \/ /\ Exits(1, Uncaught)
          /\ UNCHANGED <<procs, session>>
    /\ UNCHANGED <<args, scan, outIdx, warned, feed>>

\* (variant: the loop in main stops at its first update)
ExhaustedEarly == genPc \in {"done", "yielded"}

\* for update in ...: the loop in main ends when the generator has returned.
Exhausted == genPc = "done"

\* The scan loop is over: if scan is None raise; check_consistency(scan).
Main_Check ==
    /\ pc = "scan"
    /\ Exhausted
    /\ IF scan = <<>>
       THEN Exits(1, NoScanError) /\ UNCHANGED <<outIdx, genPc>>
       ELSE IF "TitleList" \notin scan[1].has
       THEN Exits(1, Uncaught) /\ UNCHANGED <<outIdx, genPc>>
       ELSE IF NotFound(args, scan[1]) # {}
       THEN Exits(1, MissingError(NotFound(args, scan[1]))) /\ UNCHANGED <<outIdx, genPc>>
       ELSE /\ pc' = "transcode"
            /\ outIdx' = 1
            /\ genPc' = "none"
            /\ UNCHANGED <<error, exitStatus>>
    /\ UNCHANGED <<args, scan, procs, childLines, itemsLeft, outPipe, stderr,
                   stdout, pending, truncate, readText, yielded, received, warned,
                   feed>>

\* The next output of get_outputs and the first step of the loop over
\* hb.transcode_title: run starts the child in transcode mode.
Main_Transcode ==
    /\ pc = "transcode"
    /\ genPc = "none"
    /\ outIdx <= Len(args.title_map)
    /\ \/ /\ Popen("transcode", OutputTitle(args, outIdx),
                   Subtitles(scan[1], OutputTitle(args, outIdx)))
          /\ NewSession
          /\ UNCHANGED <<pc, error, exitStatus>>
       \/ /\ Exits(1, Uncaught)
          /\ UNCHANGED <<procs, session>>
    /\ UNCHANGED <<args, scan, outIdx, warned, feed>>

\* The loop over one transcode is over: on to the next output.
Main_NextOutput ==
    /\ pc = "transcode"
    /\ Exhausted
    /\ outIdx' = outIdx + 1
    /\ genPc' = "none"
    /\ UNCHANGED <<args, pc, scan, procs, childLines, itemsLeft, outPipe, stderr,
                   stdout, pending, truncate, readText, yielded, received, error,
                   exitStatus, warned, feed>>

\* All outputs are done: if not args.no_eject: hb.eject(...).  eject starts
\* the eject command; a Popen that fails raises out of eject and of main.
Main_Eject ==
    /\ pc = "transcode"
    /\ genPc = "none"
    /\ outIdx > Len(args.title_map)
    /\ \/ /\ args.no_eject
          /\ Exits(0, NoError)
          /\ UNCHANGED procs
       \/ /\ ~args.no_eject
          /\ Popen("eject", 0, {})
          /\ pc' = "ejecting"
          /\ UNCHANGED <<error, exitStatus>>
       \/ /\ ~args.no_eject
          /\ Exits(1, Uncaught)
          /\ UNCHANGED procs
    /\ UNCHANGED <<args, scan, outIdx, session, warned, feed>>

\* The eject command exits, with status 0 or 1.
Eject_Exit ==
    /\ pc = "ejecting"
    /\ Last(procs).state = "running"
    /\ \E rc \in {0, 1} : procs' = SetLast(procs, "exited", rc)
    /\ UNCHANGED <<args, pc, scan, outIdx, session, error, exitStatus, warned, feed>>

\* if p.wait(): logger.warning(...); eject and main return.
Eject_Wait ==
    /\ pc = "ejecting"
    /\ Last(procs).state = "exited"
    /\ warned' = (Last(procs).rc # 0)
    /\ Exits(0, NoError)
    /\ UNCHANGED <<args, scan, outIdx, procs, session, feed>>

\* SIGTERM (sigterm_handler raises SystemExit(1)) or KeyboardInterrupt, at
\* any point of main.  Inside run (reading or waiting) the exception passes
\* through the finally clause; at a yield the generator is closed as the
\* frames are released, which runs the finally clause too.  eject has no
\* such clause.
Interrupt ==
    /\ pc \in {"start", "scan", "transcode", "ejecting"}
    /\ procs' = IF pc \in {"scan", "transcode"} /\ genPc \in {"reading", "yielded", "waiting"}
                THEN Finally(procs) ELSE procs
    /\ Exits(1, Interrupted)
    /\ DropSession
    /\ UNCHANGED <<args, scan, outIdx, warned, feed>>

\* ------------------------------------------------------- specification
Init ==
    /\ args \in [title_map : TitleMaps, no_eject : BOOLEAN]
    /\ pc = "start"
    /\ scan = <<>>
    /\ outIdx = 0
    /\ procs = <<>>
    /\ childLines = <<>> /\ itemsLeft = 0 /\ outPipe = <<>> /\ stderr = <<>>
    /\ stdout = <<>> /\ genPc = "none" /\ pending = <<>> /\ truncate = 0
    /\ readText = <<>> /\ yielded = <<>> /\ received = <<>>
    /\ error = NoError
    /\ exitStatus = -1
    /\ warned = FALSE
    /\ feed = <<>>

Next ==
    \/ Main_Scan
    \/ Main_Check
    \/ Main_Transcode
    \/ Main_NextOutput
    \/ Main_Eject
    \/ Eject_Exit
    \/ Eject_Wait
    \/ Interrupt
    \/ Run_Read
    \/ Run_Consume
    \/ Run_Eof
    \/ Run_Wait
    \/ Child_Write
    \/ Child_Close
    \/ Child_Exit

\* The whole program, with children that write nothing to stderr.
Spec == Init /\ [][Next]_vars

\* ------------------------------------- one session, stderr included
\* The scan session alone, from its start to the end of run or to an
\* interruption, with a child that also writes to stderr.
InitSession == Init /\ args = [title_map |-> <<1>>, no_eject |-> TRUE]

NextSession ==
    \/ Main_Scan
    \/ Run_Read
    \/ Run_Consume
    \/ Run_Eof
    \/ Run_Wait
    \/ Child_Write
    \/ Child_WriteErr
    \/ Child_BlockErr
    \/ Child_Close
    \/ Child_Exit
    \/ Interrupt

SpecSession == InitSession /\ [][NextSession]_vars

\* ------------------------------------------- the parsing loop, fed chunks
\* The loop of run with an iterator in place of proc.stdout that delivers a
\* text in chunks of any size: stdout += data, the pass over finditer, the
\* truncation.  Its consumer takes every entry.
ChunkItems == { Block("J", "m1"), Block("P", "s"), Block("P", "x"), BlankLine }

RECURSIVE ItemTexts(_)
ItemTexts(n) ==
    IF n = 0 THEN { <<>> }
    ELSE ItemTexts(n - 1)
         \cup { Flatten(i) \o t : i \in ChunkItems, t \in ItemTexts(n - 1) }

ChunkTexts == ItemTexts(MaxChunkText) \ { <<>> }

InitChunks ==
    /\ args = [title_map |-> <<1>>, no_eject |-> TRUE]
    /\ pc = "parse"
    /\ scan = <<>>
    /\ outIdx = 0
    /\ procs = <<>>
    /\ childLines = <<>> /\ itemsLeft = 0 /\ outPipe = <<>> /\ stderr = <<>>
    /\ stdout = <<>> /\ genPc = "reading" /\ pending = <<>> /\ truncate = 0
    /\ readText = <<>> /\ yielded = <<>> /\ received = <<>>
    /\ error = NoError
    /\ exitStatus = -1
    /\ warned = FALSE
    /\ feed \in ChunkTexts

\* The iterator delivers the next chunk: any non-empty prefix of what is left.
Chunk_Deliver ==
    /\ pc = "parse"
    /\ genPc = "reading"
    /\ outPipe = <<>>
    /\ \E n \in 1..Len(feed) :
          /\ outPipe' = <<SubSeq(feed, 1, n)>>
          /\ feed' = Slice(feed, n)
    /\ UNCHANGED <<args, pc, scan, outIdx, procs, childLines, itemsLeft, stderr,
                   stdout, genPc, pending, truncate, readText, yielded, received,
                   error, exitStatus, warned>>

NextChunks == Chunk_Deliver \/ Run_Read \/ Run_Consume

SpecChunks == InitChunks /\ [][NextChunks]_vars

\* ================================================================ claims
Unwound(i) == i < Len(procs) \/ pc = "exited" \/ genPc \in {"none", "done"}

\* C1: whatever ends the iteration of a session started by run (the end of
\* the output, a decode failure, a non-zero exit, the consumer abandoning
\* the generator, an interruption while reading), once the session has
\* unwound its child process is not running: it has exited or been killed.
C1_NoChildLeftRunning ==
    \A i \in 1..Len(procs) :
        (procs[i].kind \in {"scan", "transcode"} /\ Unwound(i))
            => procs[i].state \in {"exited", "killed"}

\* An interruption ended a transcode whose child was still running.
C1_Witness ==
    /\ pc = "exited"
    /\ error.kind = "interrupt"
    /\ procs # <<>>
    /\ Last(procs).kind = "transcode"
    /\ Last(procs).state = "killed"

\* The entries of a sequence of matches.
EntriesOf(ms) == [i \in 1..Len(ms) |-> HandBrakeEntry(ms[i])]

\* C2: when stdout has ended and the exit status is non-zero, run raises an
\* error whose text is exactly the last 5 lines of stderr, in order (all of
\* them when there are fewer), after every message that decodes from the
\* whole of stdout has been yielded.
C2_ExitErrorText ==
    error.kind = "exit" =>
        LET n == Len(stderr)
            k == IF n < 5 THEN n ELSE 5
            ms == FindIter(readText)
        IN  /\ error.text = [i \in 1..k |-> n - k + i]
            /\ outPipe = <<>>
            /\ Last(procs).state = "exited"
            /\ Last(procs).rc # 0
            /\ \A i \in 1..Len(ms) : JsonValid(ms[i].body)
            /\ yielded = EntriesOf(ms)

\* A non-zero exit with more than 5 lines of stderr, after two messages.
C2_Witness ==
    /\ error.kind = "exit"
    /\ Len(stderr) > 5
    /\ Len(yielded) = 2

\* C3: when a matched block does not decode, run raises at that block: the
\* messages of the blocks before it have been yielded, none is yielded for
\* it or after it (the generator is finished), and the child is not left
\* running.
C3_DecodeErrorStops ==
    error.kind = "decode" =>
        LET ms == FindIter(readText) IN
        /\ ms # <<>>
        /\ ~JsonValid(ms[Len(ms)].body)
        /\ \A i \in 1..(Len(ms) - 1) : JsonValid(ms[i].body)
        /\ yielded = EntriesOf(SubSeq(ms, 1, Len(ms) - 1))
        /\ genPc = "done"
        /\ pc = "exited"
        /\ ~Alive(Last(procs))

\* A block that does not decode after one that did, the child being killed.
C3_Witness ==
    /\ error.kind = "decode"
    /\ Len(yielded) = 1
    /\ Last(procs).state = "killed"

\* The whole text of a chunked delivery.
FullText == readText \o Flatten(outPipe) \o feed

\* The run of the loop is over: the text is all delivered and parsed, or the
\* loop raised.
ParseOver ==
    \/ pc = "parse" /\ genPc = "reading" /\ feed = <<>> /\ outPipe = <<>>
    \/ pc = "exited"

\* The matches of a sequence before the first that does not decode.
RECURSIVE Decodable(_)
Decodable(ms) ==
    IF ms = <<>> \/ ~JsonValid(Head(ms).body) THEN <<>>
    ELSE <<Head(ms)>> \o Decodable(Tail(ms))

\* C4: however the text is split into chunks, the messages emitted are those
\* emitted when the whole text is delivered as one chunk.
C4_ChunkInvariance ==
    ParseOver =>
        LET ms == FindIter(FullText) IN
        /\ yielded = EntriesOf(Decodable(ms))
        /\ (error.kind = "decode") = (Len(Decodable(ms)) < Len(ms))

ValidBlocks == { Block("J", "m1"), Block("J", "m12"), Block("P", "s"), Block("P", "w") }

IsPrefix(a, b) == Len(a) <= Len(b) /\ a = SubSeq(b, 1, Len(a))

\* A non-empty proper prefix of the text of a block.
IsPartialBlock(t) ==
    /\ t # <<>>
    /\ \E b \in ValidBlocks \cup ChunkItems :
          Len(b) = 3 /\ Len(t) < Len(Flatten(b)) /\ IsPrefix(t, Flatten(b))

\* C5: after a pass over a buffer that holds one complete valid block and
\* then an incomplete block, one message has been emitted and the buffer is
\* exactly the text after the end of the matched block.
C5_RetainsSuffix ==
    [][ ( /\ pc = "parse"
          /\ genPc = "yielded"
          /\ Len(pending) = 1
          /\ FindIter(stdout) = pending
          /\ Head(pending).start = 1
          /\ Len(stdout) > Head(pending).end + 1
          /\ IsPartialBlock(Slice(stdout, Head(pending).end + 1))
          /\ genPc' = "reading" )
        => ( /\ stdout' = Slice(stdout, Head(pending).end)
             /\ yielded' = yielded ) ]_vars

\* The text up to the end of its last whole valid block, as blocks.
RECURSIVE BlocksOf(_)
BlocksOf(t) ==
    IF \E b \in ValidBlocks : IsPrefix(Flatten(b), t)
    THEN LET b == CHOOSE c \in ValidBlocks : IsPrefix(Flatten(c), t)
         IN  <<b>> \o BlocksOf(Slice(t, Len(Flatten(b))))
    ELSE <<>>

RECURSIVE AfterBlocks(_)
AfterBlocks(t) ==
    IF \E b \in ValidBlocks : IsPrefix(Flatten(b), t)
    THEN LET b == CHOOSE c \in ValidBlocks : IsPrefix(Flatten(c), t)
         IN  AfterBlocks(Slice(t, Len(Flatten(b))))
    ELSE t

\* The message a block is written to carry.
BlockEntry(b) == [name |-> <<b[1][1]>>, content |-> MemberPayload(b[2][2])]

\* C6: for a stream of consecutive valid blocks, between passes, one message
\* has been emitted per whole block, in stream order and none twice, and the
\* buffer holds none of the text already emitted (only the block under way).
C6_OneMessagePerBlock ==
    ( /\ pc \in {"scan", "transcode"}
      /\ genPc \in {"reading", "waiting", "done"} )
    => LET rest == AfterBlocks(readText) IN
       (rest = <<>> \/ IsPartialBlock(rest))
       => LET bs == BlocksOf(readText) IN
          /\ yielded = [i \in 1..Len(bs) |-> BlockEntry(bs[i])]
          /\ stdout = rest

\* Two different blocks read and emitted, each once.
C6_Witness ==
    /\ pc \in {"scan", "transcode"}
    /\ genPc = "reading"
    /\ Len(BlocksOf(readText)) = 2
    /\ Len(yielded) = 2
    /\ yielded[1] # yielded[2]

\* The requested titles that the captured scan result does not list.
Missing ==
    IF scan = <<>> THEN {}
    ELSE { t \in TitleIds :
             /\ \E i \in 1..Len(args.title_map) : args.title_map[i] = t
             /\ \A j \in 1..Len(scan[1].TitleList) : scan[1].TitleList[j].Index # t }

Launched(kind) == \E i \in 1..Len(procs) : procs[i].kind = kind

\* C7: if a requested title is absent from the scan result's TitleList, the
\* orchestrator raises an error that reports exactly the set of all missing
\* titles, before any transcode (or eject) is launched.
C7_MissingTitles ==
    /\ error.kind = "missing" =>
          /\ error.titles = Missing
          /\ Missing # {}
          /\ pc = "exited"
          /\ exitStatus = 1
    /\ Missing # {} => ~Launched("transcode") /\ ~Launched("eject")
    /\ (pc = "exited" /\ error.kind \in {"none", "missing"} /\ Missing # {})
          => error.kind = "missing"
    /\ pc \in {"transcode", "ejecting"} => Missing = {}

\* Two requested titles are missing and both are reported.
C7_Witness ==
    /\ error.kind = "missing"
    /\ Cardinality(error.titles) = 2
    /\ Len(procs) = 1

\* No message named "JSON Title Set" among those yielded.
NoTitleSet == \A i \in 1..Len(yielded) : yielded[i].name # <<"J">>

\* C8: if the scan session ends with exit status zero without a message
\* named "JSON Title Set", the orchestrator raises the missing-scan-result
\* error (not a decode or exit error) and launches no transcode, no eject.
C8_NoScanResult ==
    /\ ( /\ Len(procs) = 1
         /\ procs[1].state = "exited" /\ procs[1].rc = 0
         /\ pc # "scan"
         /\ error.kind \in {"none", "noscan", "missing"}
         /\ NoTitleSet )
       => ( pc = "exited" /\ error.kind = "noscan" /\ exitStatus = 1 )
    /\ error.kind = "noscan" =>
          /\ scan = <<>>
          /\ NoTitleSet
          /\ Len(procs) = 1
          /\ procs[1].kind = "scan" /\ procs[1].state = "exited" /\ procs[1].rc = 0
    /\ scan = <<>> => ~Launched("transcode") /\ ~Launched("eject")

\* The scan ended well after yielding messages, none of them the title set.
C8_Witness ==
    /\ error.kind = "noscan"
    /\ yielded # <<>>

\* C9: eject never raises and never fails the rip: once every transcode has
\* succeeded, the program ends with status 0 whether the eject command
\* cannot be started or exits with a non-zero status (unless interrupted).
C9_EjectNeverFails ==
    (pc = "exited" /\ outIdx > Len(args.title_map) /\ error.kind # "interrupt")
        => (exitStatus = 0 /\ error.kind = "none")

\* C10: after a fatal error or an interruption the orchestrator has exited
\* with a non-zero status, the failed session being the last process
\* launched: no retry, no further transcode, no eject.
C10_FatalStops ==
    /\ [] ( error.kind \in Fatal \cup {"interrupt"} =>
              /\ pc = "exited"
              /\ exitStatus # 0
              /\ ~Launched("eject") \/ error.kind = "interrupt"
              /\ error.kind \in {"noscan", "missing"} => Len(procs) = 1
              /\ error.kind \in {"decode", "exit"} =>
                    /\ ~Alive(Last(procs))
                    /\ Len(procs) = 1 + outIdx
                    /\ \A i \in 1..(Len(procs) - 1) :
                          procs[i].state = "exited" /\ procs[i].rc = 0 )
    /\ [][ error.kind # "none" => procs' = procs ]_vars

\* The first of two transcodes failed: the second title is never ripped.
C10_Witness ==
    /\ pc = "exited"
    /\ error.kind = "exit"
    /\ Last(procs).kind = "transcode"
    /\ outIdx < Len(args.title_map)

\* C11: the processes launched are, in order, one scan, one transcode per
\* title-map entry in title-map order, then one eject unless no_eject; each
\* is launched only after the one before it has exited with status 0, no
\* transcode before the scan result passed the consistency check; and a
\* program that ends with status 0 has launched them all.
C11_LaunchOrder ==
    LET tm == args.title_map
        n == Len(tm)
    IN  /\ Len(procs) <= n + 2
        /\ \A i \in 1..Len(procs) :
              /\ i = 1 => procs[i].kind = "scan"
              /\ (i > 1 /\ i <= n + 1) =>
                    procs[i].kind = "transcode" /\ procs[i].title = tm[i - 1]
              /\ i = n + 2 => procs[i].kind = "eject" /\ ~args.no_eject
              /\ i < Len(procs) => procs[i].state = "exited" /\ procs[i].rc = 0
        /\ Len(procs) > 1 => scan # <<>> /\ NotFound(args, scan[1]) = {}
        /\ (pc = "exited" /\ exitStatus = 0) =>
              /\ Len(procs) = IF args.no_eject THEN n + 1 ELSE n + 2
              /\ Last(procs).state = "exited"
              /\ Last(procs).kind # "eject" => Last(procs).rc = 0

\* A whole rip of titles 2 and 1, in that order, then the eject.
C11_Witness ==
    /\ pc = "exited"
    /\ exitStatus = 0
    /\ Len(procs) = 4
    /\ procs[2].title = 2
    /\ procs[3].title = 1
    /\ procs[4].kind = "eject"

\* C12: at most one child process is alive at any moment: every process but
\* the last launched has exited or been killed, so a new session is launched
\* only once the process of the previous one is gone.
C12_OneSessionAlive ==
    /\ \A i \in 1..Len(procs) :
          i < Len(procs) => procs[i].state \in {"exited", "killed"}
    /\ Cardinality({ i \in 1..Len(procs) : Alive(procs[i]) }) <= 1

\* The second transcode runs, the scan and the first transcode being over.
C12_Witness ==
    /\ Len(procs) = 3
    /\ Last(procs).kind = "transcode"
    /\ Alive(Last(procs))
    /\ yielded # <<>>

\* The contents of the entries named exactly Progress, in order.
RECURSIVE ProgressPayloads(_)
ProgressPayloads(es) ==
    IF es = <<>> THEN <<>>
    ELSE (IF Head(es).name = <<"P">> THEN <<Head(es).content>> ELSE <<>>)
         \o ProgressPayloads(Tail(es))

\* The entries run has yielded that its consumer has taken.
Taken == IF genPc = "yielded" THEN SubSeq(yielded, 1, Len(yielded) - 1) ELSE yielded

\* C13: in a transcode session, what transcode_title has handed to main is
\* exactly the contents of the messages named "Progress" that run yielded,
\* in order, every other message being dropped; and a session that has
\* ended in failure never lets main go on: the error has ended the program.
C13_ProgressOnly ==
    /\ (procs # <<>> /\ Last(procs).kind = "transcode" /\ genPc # "none")
          => received = ProgressPayloads(Taken)
    /\ \A i \in 1..Len(procs) :
          ( /\ procs[i].kind = "transcode"
            /\ Unwound(i)
            /\ procs[i].state = "killed" \/ (procs[i].state = "exited" /\ procs[i].rc # 0) )
          => /\ pc = "exited"
             /\ error.kind \in {"decode", "exit", "interrupt", "crash"}
             /\ i = Len(procs)

\* A transcode whose child wrote a title set and then a progress message:
\* only the second one reached main.
C13_Witness ==
    /\ pc = "transcode"
    /\ genPc = "reading"
    /\ Len(yielded) = 2
    /\ yielded[1].name = <<"J">>
    /\ yielded[2].name = <<"P">>
    /\ received = <<yielded[2].content>>

\* C14: every transcode is launched for a title of the scan result with, as
\* subtitle languages, exactly the set of the language codes of the scanned
\* title that has the requested Index: each code once, none added, none lost.
C14_SubtitleSet ==
    \A i \in 1..Len(procs) :
        procs[i].kind = "transcode" =>
            /\ scan # <<>>
            /\ \E j \in 1..Len(scan[1].TitleList) :
                  scan[1].TitleList[j].Index = procs[i].title
            /\ \A j \in 1..Len(scan[1].TitleList) :
                  scan[1].TitleList[j].Index = procs[i].title =>
                      LET sl == scan[1].TitleList[j].SubtitleList IN
                      /\ \A k \in 1..Len(sl) : sl[k] \in procs[i].subs
                      /\ \A c \in procs[i].subs : \E k \in 1..Len(sl) : sl[k] = c

\* Title 1 (en, en, fr) ripped with {en, fr}, then title 2 (fr) with {fr}.
C14_Witness ==
    /\ Len(procs) >= 3
    /\ procs[2].kind = "transcode" /\ procs[2].title = 1
    /\ procs[2].subs = {"en", "fr"}
    /\ procs[3].kind = "transcode" /\ procs[3].title = 2
    /\ procs[3].subs = {"fr"}

\* C15: the step of run that reads the chunk completing a block is the step
\* that yields its message (or raises on it): run never stands before a
\* further read, at the wait or at its end with a whole block of the text
\* read so far not yet emitted, whatever the state of the child.
C15_YieldedAtOnce ==
    /\ [] ( (pc \in {"scan", "transcode"} /\ genPc \in {"reading", "waiting"})
              => Len(yielded) = Len(FindIter(readText)) )
    /\ [][ (pc \in {"scan", "transcode"} /\ Len(readText') > Len(readText))
             => LET before == FindIter(readText)
                    after == FindIter(readText')
                IN  IF Len(after) > Len(before)
                    THEN \/ /\ genPc' = "yielded"
                            /\ yielded' = Append(yielded, HandBrakeEntry(after[Len(after)]))
                         \/ /\ error'.kind = "decode"
                            /\ ~JsonValid(after[Len(after)].body)
                    ELSE yielded' = yielded /\ genPc' = "reading" ]_vars

\* A message stands at the yield while the child is still running and has
\* already written a line of its next block.
C15_Witness ==
    /\ pc \in {"scan", "transcode"}
    /\ genPc = "yielded"
    /\ Len(yielded) = 1
    /\ Last(procs).state = "running"
    /\ outPipe # <<>>

\* C16: the name of every message is the name of the line that opens its
\* block: it holds no newline, so no earlier line of the buffer is part
\* of it.
C16_NameIsOpeningLine ==
    \A i \in 1..Len(yielded) :
        \A k \in 1..Len(yielded[i].name) : yielded[i].name[k] # NL

\* C17: run is at proc.wait() only once stdout has ended (nothing left to
\* read, the child's end closed); and when the status it gets is zero, run
\* returns: no error, no kill, nothing more yielded, whatever text the
\* buffer still holds.
C17_ZeroExitEndsNormally ==
    /\ [] ( (pc \in {"scan", "transcode"} /\ genPc = "waiting")
              => /\ outPipe = <<>>
                 /\ Last(procs).state \in {"closed", "exited"} )
    /\ [] ( error.kind = "exit" => Last(procs).rc # 0 )
    /\ [][ ( /\ pc \in {"scan", "transcode"}
             /\ genPc = "waiting"
             /\ genPc' # "waiting"
             /\ Last(procs).state = "exited"
             /\ Last(procs).rc = 0
             /\ error'.kind # "interrupt" )
           => ( /\ genPc' = "done"
                /\ error' = NoError
                /\ pc' = pc
                /\ procs' = procs
                /\ yielded' = yielded ) ]_vars

\* run has returned after a zero status with the first line of a block
\* still in its buffer.
C17_Witness ==
    /\ pc \in {"scan", "transcode"}
    /\ genPc = "done"
    /\ error.kind = "none"
    /\ Last(procs).state = "exited"
    /\ Last(procs).rc = 0
    /\ stdout = <<"P", ":", SP, "{", NL>>
    /\ yielded # <<>>

\* C18: once main has captured a scan result, nothing changes it: no later
\* message of the scan session, and nothing after the session.
C18_ScanImmutable ==
    [][ scan # <<>> => scan' = scan ]_vars

\* A step of run or of its child.
SessionStep ==
    \/ Run_Read \/ Run_Consume \/ Run_Eof \/ Run_Wait
    \/ Child_Write \/ Child_WriteErr \/ Child_BlockErr \/ Child_Close \/ Child_Exit

\* C19: no deadlock between the child and its session: as long as run has
\* not ended, run or its child can take a step (so the child gets to exit
\* and the session to its end), also when the child writes more to stderr
\* than the stderr pipe holds.
C19_NoDeadlock ==
    (pc = "scan" /\ genPc \in {"reading", "yielded", "waiting"}) => ENABLED SessionStep

\* A closing line: a brace alone on its line.
IsClosingAt(t, i) ==
    /\ t[i] = "}"
    /\ i = 1 \/ t[i - 1] = NL
    /\ i < Len(t) /\ t[i + 1] = NL

\* How many closing lines a text holds: the blocks that are complete in it.
ClosingCount(t) == Cardinality({ i \in 1..Len(t) : IsClosingAt(t, i) })

\* The text after the last closing line (the whole text if there is none).
AfterLastClosing(t) ==
    LET cs == { i \in 1..Len(t) : IsClosingAt(t, i) }
    IN  IF cs = {} THEN t
        ELSE LET c == CHOOSE i \in cs : \A j \in cs : j <= i
             IN  SubSeq(t, c + 2, Len(t))

\* C20: with one whole line per chunk, every block is emitted exactly once,
\* in the pass that reads its closing line (unless it does not decode, which
\* ends the session), a pass over any other line emits nothing, and between
\* passes the buffer holds exactly the lines read since the last closing
\* line: emptying it after a match loses nothing of a later block.
C20_LosslessByLine ==
    /\ [] ( (pc \in {"scan", "transcode"} /\ genPc \in {"reading", "waiting"})
              => /\ Len(yielded) = ClosingCount(readText)
                 /\ stdout = AfterLastClosing(readText) )
    /\ [][ (pc \in {"scan", "transcode"} /\ Len(readText') > Len(readText))
             => LET n == Len(readText') IN
                IF SubSeq(readText', Len(readText) + 1, n) = <<"}", NL>>
                THEN IF readText'[n - 3] \in MemberTokens
                     THEN /\ genPc' = "yielded"
                          /\ Len(yielded') = Len(yielded) + 1
                          /\ yielded'[Len(yielded')].content =
                                MemberPayload(readText'[n - 3])
                          /\ SubSeq(yielded', 1, Len(yielded)) = yielded
                     ELSE error'.kind = "decode" /\ yielded' = yielded
                ELSE yielded' = yielded /\ genPc' = "reading" ]_vars

\* Two blocks read line by line, both emitted, the buffer empty again.
C20_Witness ==
    /\ pc \in {"scan", "transcode"}
    /\ genPc = "reading"
    /\ ClosingCount(readText) = 2
    /\ Len(yielded) = 2
    /\ stdout = <<>>

====
